---- MODULE Spec2Model ----
(***************************************************************************)
(* Model of the flow publication engine of kestra-agent:                   *)
(* createFlowTool.execute (YAML source resolution, structural validation,  *)
(* identifier and namespace resolution, line-anchored patching of the raw  *)
(* text, attemptCreateFlow with its pre-send normalisation, the single     *)
(* conflict retry) together with the two context stores it reads and       *)
(* writes.                                                                 *)
(*                                                                         *)
(* Strings are sequences of one-character strings, so that slugification,  *)
(* concatenation and parseInt are computed rather than assumed.  A YAML     *)
(* text is a sequence of lines; a line records its indentation level, a    *)
(* leading "- ", whether its key is quoted, its key and the scalar text    *)
(* after the colon.                                                        *)
(***************************************************************************)
EXTENDS Integers, Sequences, FiniteSets, TLC

(***************************************************************************)
(* Characters and strings                                                  *)
(***************************************************************************)
LowerAlpha == {"a","b","c","d","e","f","g","h","i","j","k","l","m",
               "n","o","p","q","r","s","t","u","v","w","x","y","z"}

Digits == {"0","1","2","3","4","5","6","7","8","9"}

\* the class [a-z0-9] of the slug regular expression
LowerAlnum == LowerAlpha \cup Digits

\* String.prototype.toLowerCase on one character (the upper-case letters in use)
Lower(c) ==
  IF c = "A" THEN "a" ELSE IF c = "B" THEN "b" ELSE IF c = "F" THEN "f" ELSE c

ToLowerCase(s) == [i \in DOMAIN s |-> Lower(s[i])]

RECURSIVE DropWhileNotAlnum(_)
DropWhileNotAlnum(s) ==
  IF s = <<>> THEN <<>>
  ELSE IF Head(s) \in LowerAlnum THEN s
  ELSE DropWhileNotAlnum(Tail(s))

\* .replace(/[^a-z0-9]+/g, "_") : every maximal run outside [a-z0-9] becomes one "_"
RECURSIVE ReplaceNonAlnumRuns(_)
ReplaceNonAlnumRuns(s) ==
  IF s = <<>> THEN <<>>
  ELSE IF Head(s) \in LowerAlnum
       THEN <<Head(s)>> \o ReplaceNonAlnumRuns(Tail(s))
       ELSE <<"_">> \o ReplaceNonAlnumRuns(DropWhileNotAlnum(Tail(s)))

RECURSIVE DropLeadingUnderscores(_)
DropLeadingUnderscores(s) ==
  IF s # <<>> /\ Head(s) = "_" THEN DropLeadingUnderscores(Tail(s)) ELSE s

RECURSIVE DropTrailingUnderscores(_)
DropTrailingUnderscores(s) ==
  IF s # <<>> /\ s[Len(s)] = "_"
  THEN DropTrailingUnderscores(SubSeq(s, 1, Len(s) - 1))
  ELSE s

\* .replace(/^_+|_+$/g, "")
TrimUnderscores(s) == DropTrailingUnderscores(DropLeadingUnderscores(s))

\* flowPurpose.toLowerCase().replace(/[^a-z0-9]+/g, "_").replace(/^_+|_+$/g, "")
Slugify(s) == TrimUnderscores(ReplaceNonAlnumRuns(ToLowerCase(s)))

DigitVal(c) ==
  CASE c = "0" -> 0 [] c = "1" -> 1 [] c = "2" -> 2 [] c = "3" -> 3
    [] c = "4" -> 4 [] c = "5" -> 5 [] c = "6" -> 6 [] c = "7" -> 7
    [] c = "8" -> 8 [] c = "9" -> 9

RECURSIVE LeadingDigits(_)
LeadingDigits(s) ==
  IF s # <<>> /\ Head(s) \in Digits
  THEN <<Head(s)>> \o LeadingDigits(Tail(s))
  ELSE <<>>

RECURSIVE DigitsValue(_)
DigitsValue(s) ==
  IF s = <<>> THEN 0 ELSE 10 * DigitsValue(SubSeq(s, 1, Len(s) - 1)) + DigitVal(s[Len(s)])

\* parseInt(v): the longest prefix of decimal digits, NaN when there is none
ParseInt(s) ==
  LET d == LeadingDigits(s)
  IN  IF d = <<>> THEN [nan |-> TRUE, n |-> 0] ELSE [nan |-> FALSE, n |-> DigitsValue(d)]

DigitChar(n) ==
  CASE n = 0 -> "0" [] n = 1 -> "1" [] n = 2 -> "2" [] n = 3 -> "3"
    [] n = 4 -> "4" [] n = 5 -> "5" [] n = 6 -> "6" [] n = 7 -> "7"
    [] n = 8 -> "8" [] n = 9 -> "9"

RECURSIVE NumberText(_)
NumberText(n) ==
  IF n < 10 THEN <<DigitChar(n)>> ELSE NumberText(n \div 10) \o <<DigitChar(n % 10)>>

\* how yaml.stringify writes the number produced by parseInt
StringifyNumber(p) == IF p.nan THEN <<".","n","a","n">> ELSE NumberText(p.n)

(***************************************************************************)
(* YAML text as lines                                                      *)
(***************************************************************************)
\* key: value at column 0
L(k, v) == [ind |-> 0, dash |-> FALSE, q |-> FALSE, key |-> k, val |-> v]
\* "key": value at column 0 (quoted key)
LQ(k, v) == [ind |-> 0, dash |-> FALSE, q |-> TRUE, key |-> k, val |-> v]
\*   - key: value   (first line of a sequence item)
D(k, v) == [ind |-> 1, dash |-> TRUE, q |-> FALSE, key |-> k, val |-> v]
\*     key: value   (further line of a sequence item, or of a nested mapping)
C(k, v) == [ind |-> 1, dash |-> FALSE, q |-> FALSE, key |-> k, val |-> v]
\*       key: value (line of a mapping nested in a task property)
G(k, v) == [ind |-> 2, dash |-> FALSE, q |-> FALSE, key |-> k, val |-> v]
\* a line the YAML parser rejects (an unclosed flow mapping)
BadLine == [ind |-> 0, dash |-> FALSE, q |-> FALSE, key |-> "{", val |-> <<>>]

EmptyFlowSeq == <<"[", "]">>

\* the text "" : the empty string (nothing after the colon is null instead)
EmptyQuoted == <<"\"", "\"">>

\* a comment line; a text of comment lines only parses to null
CommentLine == [ind |-> 0, dash |-> FALSE, q |-> FALSE, key |-> "#", val |-> <<>>]

(***************************************************************************)
(* yaml.parse                                                              *)
(***************************************************************************)
Min(S) == CHOOSE x \in S : \A y \in S : x <= y

RECURSIVE SetToSortedSeq(_)
SetToSortedSeq(S) ==
  IF S = {} THEN <<>> ELSE <<Min(S)>> \o SetToSortedSeq(S \ {Min(S)})

RECURSIVE Flatten(_)
Flatten(ss) == IF ss = <<>> THEN <<>> ELSE Head(ss) \o Flatten(Tail(ss))

\* last line of the block nested under line i (i itself when nothing is nested)
BlockEnd(text, i) ==
  LET stops == {j \in (i + 1)..Len(text) : text[j].ind <= text[i].ind}
  IN  IF stops = {} THEN Len(text) ELSE Min(stops) - 1

\* last line of the sequence item that starts at the dash line i, inside a block ending at b
ItemEnd(text, i, b) ==
  LET starts == {j \in (i + 1)..b : text[j].dash}
  IN  IF starts = {} THEN b ELSE Min(starts) - 1

NullTV == [t |-> "null", s |-> <<>>, m |-> <<>>]
StrTV(s) == [t |-> "str", s |-> s, m |-> <<>>]
MapTV(m) == [t |-> "map", s |-> <<>>, m |-> m]

\* value of a task property written on line i
TaskEntryValue(text, i) ==
  LET e == BlockEnd(text, i)
  IN  IF e > i
      THEN MapTV([k \in 1..(e - i) |-> [key |-> text[i + k].key, s |-> text[i + k].val]])
      ELSE IF text[i].val = <<>> THEN NullTV
      ELSE IF text[i].val = EmptyQuoted THEN StrTV(<<>>)
      ELSE StrTV(text[i].val)

\* the mapping written on the lines a..b (one task)
ItemOf(text, a, b) ==
  LET idx == SetToSortedSeq({i \in a..b : text[i].ind = 1})
  IN  [k \in DOMAIN idx |-> [key |-> text[idx[k]].key, v |-> TaskEntryValue(text, idx[k])]]

NullV == [t |-> "null", s |-> <<>>, items |-> <<>>]
StrV(s) == [t |-> "str", s |-> s, items |-> <<>>]
SeqV(items) == [t |-> "seq", s |-> <<>>, items |-> items]
MapV(item) == [t |-> "map", s |-> <<>>, items |-> <<item>>]

\* value of the top-level key written on line i
TopValue(text, i) ==
  LET e == BlockEnd(text, i)
  IN  IF e = i
      THEN IF text[i].val = <<>> THEN NullV
           ELSE IF text[i].val = EmptyFlowSeq THEN SeqV(<<>>)
           ELSE IF text[i].val = EmptyQuoted THEN StrV(<<>>)
           ELSE StrV(text[i].val)
      ELSE IF text[i + 1].dash
           THEN LET starts == SetToSortedSeq({j \in (i + 1)..e : text[j].dash})
                IN  SeqV([k \in DOMAIN starts |->
                            ItemOf(text, starts[k], ItemEnd(text, starts[k], e))])
           ELSE MapV(ItemOf(text, i + 1, e))

TopLines(text) == {i \in DOMAIN text : text[i].ind = 0}

\* the conditions under which yaml.parse throws are the negation of this
SyntaxOK(text) ==
  /\ \A i \in DOMAIN text : text[i].key # "{"
  /\ text # <<>> => text[1].ind = 0
  /\ \A i \in DOMAIN text : text[i].ind # 1 => ~text[i].dash
  /\ \A i, j \in TopLines(text) : text[i].key = text[j].key => i = j
  /\ \A i \in DOMAIN text :
       BlockEnd(text, i) > i =>
         /\ text[i].val = <<>>
         /\ text[i + 1].ind = text[i].ind + 1
         /\ (text[i].ind = 0 /\ ~text[i + 1].dash) =>
               \A j \in (i + 1)..BlockEnd(text, i) : ~text[j].dash

\* a text without any node: yaml.parse returns null
IsNullDoc(text) == text # <<>> /\ \A i \in DOMAIN text : text[i] = CommentLine

\* yaml.parse(text): ok = FALSE stands for the thrown YAMLParseError, isNull for
\* the value null
Parse(text) ==
  IF IsNullDoc(text) THEN [ok |-> TRUE, isNull |-> TRUE, top |-> <<>>]
  ELSE IF ~SyntaxOK(text) THEN [ok |-> FALSE, isNull |-> FALSE, top |-> <<>>]
  ELSE LET idx == SetToSortedSeq(TopLines(text))
       IN  [ok |-> TRUE, isNull |-> FALSE,
            top |-> [k \in DOMAIN idx |->
                       [key |-> text[idx[k]].key, v |-> TopValue(text, idx[k])]]]

\* obj[key] on a parsed mapping (undefined and null are both the null value)
Get(top, k) ==
  LET hits == {i \in DOMAIN top : top[i].key = k}
  IN  IF hits = {} THEN NullV ELSE top[Min(hits)].v

Has(top, k) == \E i \in DOMAIN top : top[i].key = k

\* JavaScript truthiness of a parsed value
Truthy(v) == v.t # "null" /\ ~(v.t = "str" /\ v.s = <<>>)

IsArray(v) == v.t = "seq"

(***************************************************************************)
(* yaml.stringify                                                          *)
(***************************************************************************)
\* the text yaml.stringify writes after the colon
ScalarText(v) == IF v.t = "str" /\ v.s = <<>> THEN EmptyQuoted ELSE v.s

TaskEntryLines(e, first) ==
  LET head == IF first THEN D(e.key, ScalarText(e.v)) ELSE C(e.key, ScalarText(e.v))
  IN  <<head>> \o [k \in DOMAIN e.v.m |-> G(e.v.m[k].key, e.v.m[k].s)]

ItemLines(item, asSeqItem) ==
  Flatten([k \in DOMAIN item |-> TaskEntryLines(item[k], asSeqItem /\ k = 1)])

EntryLines(e) ==
  IF e.v.t = "seq" /\ e.v.items = <<>> THEN <<L(e.key, EmptyFlowSeq)>>
  ELSE <<L(e.key, ScalarText(e.v))>>
       \o Flatten([k \in DOMAIN e.v.items |-> ItemLines(e.v.items[k], e.v.t = "seq")])

\* yaml.stringify(doc): block style, keys unquoted, key order kept
Stringify(top) == Flatten([k \in DOMAIN top |-> EntryLines(top[k])])

(***************************************************************************)
(* createFlowTool.execute: validation, identifier resolution, patching     *)
(***************************************************************************)
ErrMissingId == "Flow must have an 'id' field"
ErrMissingNamespace == "Flow must have a 'namespace' field"
ErrNoTasks == "Flow must have at least one task in the 'tasks' array"
ErrSyntax == "YAML syntax error"
ErrUpdatedSyntax == "Updated YAML syntax error"

TasksInvalid(top) ==
  \/ ~Truthy(Get(top, "tasks"))
  \/ ~IsArray(Get(top, "tasks"))
  \/ Len(Get(top, "tasks").items) = 0

\* Step 2 of execute: the diagnostics pushed for a parsed document
ValidationErrors(top) ==
  (IF ~Truthy(Get(top, "id")) THEN <<ErrMissingId>> ELSE <<>>)
  \o (IF ~Truthy(Get(top, "namespace")) /\ ~Truthy(Get(top, "defaultNamespace"))
      THEN <<ErrMissingNamespace>> ELSE <<>>)
  \o (IF TasksInvalid(top) THEN <<ErrNoTasks>> ELSE <<>>)

\* parsedYaml.namespace after the defaultNamespace alias has been copied into it
ParsedNamespace(top) ==
  IF Truthy(Get(top, "defaultNamespace")) /\ ~Truthy(Get(top, "namespace"))
  THEN Get(top, "defaultNamespace")
  ELSE Get(top, "namespace")

FlowRoot == <<"f","l","o","w">>

\* the precedence of hint and document id exchanged
BaseIdDocumentFirst(flowPurpose, top) ==
  IF Truthy(Get(top, "id")) THEN Get(top, "id").s
  ELSE IF flowPurpose # <<>> THEN Slugify(flowPurpose)
  ELSE FlowRoot

\* baseId: the slugified purpose, else the id of the document, else "flow"
BaseId(flowPurpose, top) ==
  IF flowPurpose # <<>> THEN Slugify(flowPurpose)
  ELSE IF Truthy(Get(top, "id")) THEN Get(top, "id").s
  ELSE FlowRoot

\* the suffix left out
UniqueSuffixNone(timestamp, randomSuffix) == <<>>

UniqueSuffix(timestamp, randomSuffix) == <<"_">> \o timestamp \o <<"_">> \o randomSuffix

\* finalFlowId
ResolveFlowId(flowId, flowPurpose, top, timestamp, randomSuffix) ==
  IF flowId # <<>> THEN flowId
  ELSE BaseId(flowPurpose, top) \o UniqueSuffix(timestamp, randomSuffix)

\* finalNamespace = parsedYaml.namespace || namespace
FinalNamespace(top, namespace) ==
  IF Truthy(ParsedNamespace(top)) THEN ParsedNamespace(top).s ELSE namespace

\* generateRandomFlowId
GenerateRandomFlowId(timestamp, randomSuffix) ==
  FlowRoot \o <<"_">> \o timestamp \o <<"_">> \o randomSuffix

\* text.includes(key + ":")
Includes(text, k) == \E i \in DOMAIN text : text[i].key = k /\ ~text[i].q

\* text.replace(/^key:\s*.*$/m, repl): the first line that starts with key: at
\* column 0 is replaced; when nothing but white space follows the colon, \s*
\* runs over the line break and .* takes the following line as well
ReplaceLine(text, k, repl) ==
  LET hits == {i \in DOMAIN text :
                 text[i].ind = 0 /\ ~text[i].q /\ ~text[i].dash /\ text[i].key = k}
  IN  IF hits = {} THEN text
      ELSE LET i == Min(hits)
               last == IF text[i].val = <<>> /\ i < Len(text) THEN i + 1 ELSE i
           IN  SubSeq(text, 1, i - 1) \o repl \o SubSeq(text, last + 1, Len(text))

\* updatedYaml: the id rewrite followed by the namespace / defaultNamespace rewrite
PatchNamespace(text, finalNamespace) ==
  LET nsLine == <<L("namespace", finalNamespace)>>
      step1 == IF Includes(text, "namespace")
               THEN ReplaceLine(text, "namespace", nsLine)
               ELSE IF Includes(text, "defaultNamespace")
               THEN ReplaceLine(text, "defaultNamespace", nsLine)
               ELSE nsLine \o text
  IN  IF Includes(step1, "defaultNamespace")
      THEN ReplaceLine(step1, "defaultNamespace", <<>>)
      ELSE step1

PatchId(text, id) == ReplaceLine(text, "id", <<L("id", id)>>)

UpdatedYaml(flowYaml, finalFlowId, finalNamespace) ==
  PatchNamespace(PatchId(flowYaml, finalFlowId), finalNamespace)

(***************************************************************************)
(* attemptCreateFlow: what is done to the text before it is posted         *)
(***************************************************************************)
ConstantText == <<"c","o","n","s","t","a","n","t">>

\* retry = {type: "constant", maxAttempt: parseInt(task.retry)}
NormalizedRetry(v) ==
  MapTV(<<[key |-> "type", s |-> ConstantText],
          [key |-> "maxAttempt", s |-> StringifyNumber(ParseInt(v.s))]>>)

FixTask(task) ==
  [k \in DOMAIN task |->
     IF task[k].key = "retry" /\ task[k].v.t = "str"
     THEN [key |-> "retry", v |-> NormalizedRetry(task[k].v)]
     ELSE task[k]]

FixTop(top) ==
  [k \in DOMAIN top |->
     IF top[k].key = "tasks"
     THEN [key |-> "tasks",
           v |-> SeqV([j \in DOMAIN top[k].v.items |-> FixTask(top[k].v.items[j])])]
     ELSE top[k]]

\* the pre-send check throws (and the throw is swallowed) exactly when this holds
PreSendRejects(text) ==
  LET p == Parse(text)
  IN  \/ ~p.ok
      \/ p.isNull
      \/ ~Truthy(Get(p.top, "id"))
      \/ ~Truthy(Get(p.top, "namespace"))
      \/ TasksInvalid(p.top)

\* the body handed to axios.post
PostBody(text) ==
  IF PreSendRejects(text) THEN text
  ELSE LET top == Parse(text).top
       IN  IF FixTop(top) # top THEN Stringify(FixTop(top)) ELSE text

(***************************************************************************)
(* yaml-validator: kestraFlowSchema                                        *)
(***************************************************************************)
\* task[key]
TaskGet(task, k) ==
  LET hits == {i \in DOMAIN task : task[i].key = k}
  IN  IF hits = {} THEN NullTV ELSE task[Min(hits)].v

TaskHas(task, k) == \E i \in DOMAIN task : task[i].key = k

\* a scalar that YAML reads as a number
IsNumberText(s) == s # <<>> /\ \A i \in DOMAIN s : s[i] \in Digits

\* one entry of schemaResult.error.errors: err.path and err.message
ZodErr(field, index, sub, message) ==
  [field |-> field, index |-> index, sub |-> sub, message |-> message]

\* z.string().min(1, emptyMessage) on a property: the message of its issue, ""
\* when there is none
ZodStringIssue(has, t, s, emptyMessage) ==
  IF ~has THEN "Required"
  ELSE IF t = "null" THEN "Expected string, received null"
  ELSE IF t = "map" THEN "Expected string, received object"
  ELSE IF t = "seq" THEN "Expected string, received array"
  ELSE IF IsNumberText(s) THEN "Expected string, received number"
  ELSE IF s = <<>> THEN emptyMessage
  ELSE ""

\* the issues of the element i of tasks: id, then type
TaskIssues(task, i) ==
  LET idv == TaskGet(task, "id")
      tyv == TaskGet(task, "type")
      idIssue == ZodStringIssue(TaskHas(task, "id"), idv.t, idv.s,
                                "Task ID must not be empty")
      tyIssue == ZodStringIssue(TaskHas(task, "type"), tyv.t, tyv.s,
                                "Task type must not be empty")
  IN  (IF idIssue # "" THEN <<ZodErr("tasks", i - 1, "id", idIssue)>> ELSE <<>>)
      \o (IF tyIssue # "" THEN <<ZodErr("tasks", i - 1, "type", tyIssue)>> ELSE <<>>)

\* z.array(task).min(1): the length issue comes before those of the elements
TasksIssues(top) ==
  LET v == Get(top, "tasks")
  IN  IF ~Has(top, "tasks") THEN <<ZodErr("tasks", -1, "", "Required")>>
      ELSE IF v.t = "null"
      THEN <<ZodErr("tasks", -1, "", "Expected array, received null")>>
      ELSE IF v.t = "map"
      THEN <<ZodErr("tasks", -1, "", "Expected array, received object")>>
      ELSE IF v.t = "str"
      THEN <<ZodErr("tasks", -1, "",
                    IF IsNumberText(v.s) THEN "Expected array, received number"
                    ELSE "Expected array, received string")>>
      ELSE (IF Len(v.items) = 0
            THEN <<ZodErr("tasks", -1, "", "At least one task is required")>>
            ELSE <<>>)
           \o Flatten([i \in DOMAIN v.items |-> TaskIssues(v.items[i], i)])

kestraFlowSchemaFirstIssue(parsed) ==
  IF parsed.isNull
  THEN <<ZodErr("", -1, "", "Expected object, received null")>>
  ELSE LET idv == Get(parsed.top, "id")
           nsv == Get(parsed.top, "namespace")
           idIssue == ZodStringIssue(Has(parsed.top, "id"), idv.t, idv.s,
                                     "Flow ID must not be empty")
           nsIssue == ZodStringIssue(Has(parsed.top, "namespace"), nsv.t, nsv.s,
                                     "Namespace must not be empty")
       IN  IF idIssue # "" THEN <<ZodErr("id", -1, "", idIssue)>>
           ELSE IF nsIssue # "" THEN <<ZodErr("namespace", -1, "", nsIssue)>>
           ELSE TasksIssues(parsed.top)

\* kestraFlowSchema.safeParse(parsedYaml): the issues in the order of the schema
kestraFlowSchema(parsed) ==
  IF parsed.isNull
  THEN <<ZodErr("", -1, "", "Expected object, received null")>>
  ELSE LET idv == Get(parsed.top, "id")
           nsv == Get(parsed.top, "namespace")
           idIssue == ZodStringIssue(Has(parsed.top, "id"), idv.t, idv.s,
                                     "Flow ID must not be empty")
           nsIssue == ZodStringIssue(Has(parsed.top, "namespace"), nsv.t, nsv.s,
                                     "Namespace must not be empty")
       IN  (IF idIssue # "" THEN <<ZodErr("id", -1, "", idIssue)>> ELSE <<>>)
           \o (IF nsIssue # "" THEN <<ZodErr("namespace", -1, "", nsIssue)>> ELSE <<>>)
           \o TasksIssues(parsed.top)

(***************************************************************************)
(* yaml-validator: applyCommonFixes                                        *)
(***************************************************************************)
\* obj[key] = v: in place when the key exists, as the last key otherwise
Put(top, k, v) ==
  IF Has(top, k)
  THEN [i \in DOMAIN top |-> IF top[i].key = k THEN [key |-> k, v |-> v] ELSE top[i]]
  ELSE Append(top, [key |-> k, v |-> v])

TaskPut(task, k, v) ==
  IF TaskHas(task, k)
  THEN [i \in DOMAIN task |-> IF task[i].key = k THEN [key |-> k, v |-> v] ELSE task[i]]
  ELSE Append(task, [key |-> k, v |-> v])

\* JavaScript truthiness of a task property
TaskTruthy(v) == v.t # "null" /\ ~(v.t = "str" /\ v.s = <<>>)

\* `${task.id}` inside a fix message
IdInMessage(task) ==
  IF ~TaskHas(task, "id") THEN <<"u","n","d","e","f","i","n","e","d">>
  ELSE IF TaskGet(task, "id").t = "null" THEN <<"n","u","l","l">>
  ELSE TaskGet(task, "id").s

\* the namespace of Fix 1 (and the default of the namespace parameter)
CompanyTeam == <<"c","o","m","p","a","n","y",".","t","e","a","m">>

\* one entry of fixesMade
FixEntry(kind, id) == [kind |-> kind, id |-> id]

\* what one rule leaves behind: the document and the fixes it pushed
Fixed(top, fixes) == [top |-> top, fixes |-> fixes]

\* the tasks a loop of Fix 2, 5 or 6 runs over: none unless tasks is an array
TaskList(top) ==
  IF Truthy(Get(top, "tasks")) /\ IsArray(Get(top, "tasks"))
  THEN Get(top, "tasks").items ELSE <<>>

\* the document after such a loop; rs[i] is what the rule left of task i
WithTasks(top, rs) ==
  IF ~(Truthy(Get(top, "tasks")) /\ IsArray(Get(top, "tasks"))) THEN Fixed(top, <<>>)
  ELSE Fixed(Put(top, "tasks", SeqV([i \in DOMAIN rs |-> rs[i].top])),
             Flatten([i \in DOMAIN rs |-> rs[i].fixes]))

EnsureNamespaceOnlyMissing(top) ==
  IF ~Has(top, "namespace")
  THEN Fixed(Put(top, "namespace", StrV(CompanyTeam)), <<FixEntry("Added missing namespace", CompanyTeam)>>)
  ELSE Fixed(top, <<>>)

\* Fix 1: Ensure namespace exists
EnsureNamespace(top) ==
  IF ~Truthy(Get(top, "namespace"))
  THEN Fixed(Put(top, "namespace", StrV(CompanyTeam)), <<FixEntry("Added missing namespace", CompanyTeam)>>)
  ELSE Fixed(top, <<>>)

\* Fix 2 on one task: a number or a string becomes {type, maxAttempt}, with
\* maxAttempt: isNaN(maxAttempt) ? 1 : maxAttempt
FixRetryOfTask(task, i) ==
  IF TaskHas(task, "retry") /\ TaskGet(task, "retry").t = "str"
  THEN Fixed(TaskPut(task, "retry",
                     LET maxAttempt == ParseInt(TaskGet(task, "retry").s)
                     IN  MapTV(<<[key |-> "type", s |-> ConstantText],
                                 [key |-> "maxAttempt",
                                  s |-> IF maxAttempt.nan THEN <<"1">>
                                        ELSE NumberText(maxAttempt.n)]>>)),
             <<FixEntry("Converted simple retry value to proper object format",
                        IdInMessage(task))>>)
  ELSE Fixed(task, <<>>)

\* Fix 3: Ensure tasks array exists
EnsureTasks(top) ==
  IF ~Truthy(Get(top, "tasks"))
  THEN Fixed(Put(top, "tasks", SeqV(<<>>)), <<FixEntry("Added missing tasks array", <<>>)>>)
  ELSE Fixed(top, <<>>)

\* Fix 4: Convert non-array tasks to array (objects only)
WrapTasks(top) ==
  LET v == Get(top, "tasks")
  IN  IF Truthy(v) /\ ~IsArray(v) /\ v.t = "map"
      THEN Fixed(Put(top, "tasks", SeqV(v.items)), <<FixEntry("Converted tasks object to array format", <<>>)>>)
      ELSE Fixed(top, <<>>)

TaskIdText(i) == <<"t","a","s","k","-">> \o NumberText(i)

\* Fix 5 on one task
EnsureTaskId(task, i) ==
  IF ~TaskTruthy(TaskGet(task, "id"))
  THEN Fixed(TaskPut(task, "id", StrTV(TaskIdText(i))),
             <<FixEntry("Added missing task ID", TaskIdText(i))>>)
  ELSE Fixed(task, <<>>)

\* JSON.parse on a text that starts with { and ends with }: the one-member
\* object {"k":"v"} of one-character strings, a SyntaxError on anything else
JsonParse(s) ==
  IF /\ Len(s) = 9 /\ s[2] = "\"" /\ s[4] = "\"" /\ s[5] = ":"
     /\ s[6] = "\"" /\ s[8] = "\"" /\ s[3] # "\"" /\ s[7] # "\""
  THEN [ok |-> TRUE, m |-> <<[key |-> s[3], s |-> <<s[7]>>]>>]
  ELSE [ok |-> FALSE, m |-> <<>>]

\* Fix 6 on one task: a string env becomes an object
FixEnvOfTask(task, i) ==
  LET env == TaskGet(task, "env")
      wrapped == MapTV(<<[key |-> "VALUE", s |-> env.s]>>)
  IN  IF TaskTruthy(env) /\ env.t = "str" /\ ~IsNumberText(env.s)
      THEN IF env.s[1] = "{" /\ env.s[Len(env.s)] = "}" /\ JsonParse(env.s).ok
           THEN Fixed(TaskPut(task, "env", MapTV(JsonParse(env.s).m)),
                      <<FixEntry("Converted env from string to object format",
                                 IdInMessage(task))>>)
           ELSE Fixed(TaskPut(task, "env", wrapped),
                      <<FixEntry("Converted env string to object with VALUE key",
                                 IdInMessage(task))>>)
      ELSE Fixed(task, <<>>)

\* applyCommonFixes(yamlObject): Fix 1 to Fix 6 in the order of the code, each
\* on what the one before left; modified is fixes # <<>>
applyCommonFixes(parsed) ==
  IF parsed.isNull THEN Fixed(parsed.top, <<>>)
  ELSE LET f1 == EnsureNamespace(parsed.top)
           f2 == WithTasks(f1.top, [i \in DOMAIN TaskList(f1.top) |->
                                      FixRetryOfTask(TaskList(f1.top)[i], i)])
           f3 == EnsureTasks(f2.top)
           f4 == WrapTasks(f3.top)
           f5 == WithTasks(f4.top, [i \in DOMAIN TaskList(f4.top) |->
                                      EnsureTaskId(TaskList(f4.top)[i], i)])
           f6 == WithTasks(f5.top, [i \in DOMAIN TaskList(f5.top) |->
                                      FixEnvOfTask(TaskList(f5.top)[i], i)])
       IN  Fixed(f6.top, f1.fixes \o f2.fixes \o f3.fixes \o f4.fixes
                         \o f5.fixes \o f6.fixes)

(***************************************************************************)
(* Inputs                                                                  *)
(***************************************************************************)
F1 == <<"f","1">>
Prod == <<"p","r","o","d">>
Other == <<"o","t","h","e","r">>
T1 == <<"t","1">>
LogType == <<"l","o","g">>

TaskLines == <<D("id", T1), C("type", LogType)>>

DocPlain == <<L("id", F1), L("namespace", Prod), L("tasks", <<>>)>> \o TaskLines
DocDefaultNs == <<L("id", F1), L("defaultNamespace", Prod), L("tasks", <<>>)>> \o TaskLines
DocNestedNs ==
  <<L("id", F1), L("defaultNamespace", Prod), L("tasks", <<>>)>>
  \o TaskLines \o <<C("namespace", Other)>>
DocBothNs ==
  <<L("id", F1), L("namespace", Prod), L("defaultNamespace", Other), L("tasks", <<>>)>>
  \o TaskLines
DocQuotedId == <<LQ("id", F1), L("namespace", Prod), L("tasks", <<>>)>> \o TaskLines
DocQuotedNs == <<L("id", F1), LQ("namespace", Prod), L("tasks", <<>>)>> \o TaskLines
DocRetry ==
  <<L("id", F1), L("namespace", Prod), L("tasks", <<>>)>>
  \o TaskLines \o <<C("retry", <<"3">>), D("id", <<"t","2">>), C("type", LogType),
                    C("retry", <<"x">>)>>
DocBlankNs ==
  <<L("id", F1), L("namespace", <<>>), L("description", <<"d">>),
    L("defaultNamespace", Prod), L("tasks", <<>>)>> \o TaskLines
DocNoId == <<L("namespace", Prod), L("tasks", <<>>)>> \o TaskLines
DocNoNs == <<L("id", F1), L("tasks", <<>>)>> \o TaskLines
DocNoTasks == <<L("id", F1), L("namespace", Prod)>>
DocEmptyTasks == <<L("id", F1), L("namespace", Prod), L("tasks", EmptyFlowSeq)>>
DocTasksObject == <<L("id", F1), L("namespace", Prod), L("tasks", <<>>), C("id", T1)>>
DocBad == <<L("id", F1), BadLine>>
DocNull == <<CommentLine>>

AllDocs ==
  <<DocPlain, DocNestedNs, DocRetry, DocBlankNs, DocQuotedId, DocDefaultNs,
    DocBothNs, DocQuotedNs, DocNoId, DocNoNs, DocNoTasks,
    DocEmptyTasks, DocTasksObject, DocBad, DocNull>>

\* number of publish calls followed in one run
MaxCalls == 2

\* the documents a caller may pass; the empty text stands for "no flowYaml"
Docs == {AllDocs[i] : i \in DOMAIN AllDocs}

NoText == <<>>

\* explicit flowId values (empty: not given)
FlowIds == {<<>>, <<"M","y"," ","F">>}

\* flowPurpose values (empty: not given)
Purposes == {<<>>, <<"A"," ","!","b">>, <<"!","!">>}

Namespaces == {CompanyTeam}

\* Date.now().toString(36)
Timestamps == {<<"k","1">>}

\* Math.random().toString(36).substring(2, 5): zero to three characters
RandomSuffixes3 == {<<>>, <<"x","y","z">>}

\* Math.random().toString(36).substring(2, 8): zero to six characters
RandomSuffixes6 == {<<>>, <<"q","r","s","t","u","v">>}

\* what the remote service answers to POST /api/v1/flows; status 0 is a
\* request that got no response (error.response undefined)
Responses ==
  { [status |-> 200, message |-> "ok"],
    [status |-> 409, message |-> "conflict"],
    [status |-> 422, message |-> "invalid flow"],
    [status |-> 422, message |-> "flow id already exists"],
    [status |-> 500, message |-> "server error"],
    [status |-> 0,   message |-> "network error"] }

(***************************************************************************)
(* State                                                                   *)
(***************************************************************************)
VARIABLES
  pc,               \* "idle", "post1", "post2" (suspended in axios.post), "done"
  calls,            \* publish calls completed so far
  fcYaml,           \* KestraFlowContext singleton, key flowYaml
  rtYaml,           \* RuntimeContext, key kestraFlowYaml
  rtFlowId,         \* RuntimeContext, key kestraFlowId
  rtNamespace,      \* RuntimeContext, key kestraFlowNamespace
  params,           \* the parameters of the running call
  flowYaml,         \* the text the call works on
  finalFlowId,
  finalNamespace,
  timestamp,        \* the Date.now() and Math.random() texts used for finalFlowId
  randomSuffix,
  updatedYaml,
  randomId,         \* the id produced by generateRandomFlowId, if any
  generated,        \* number of generateRandomFlowId calls in this call
  posts,            \* the create requests sent in this call: attemptFlowId and body
  replies,          \* the answers received to them
  errors,
  validationErrors,
  result,           \* what execute returns
  vpc,              \* validator: "idle", "validated", "revalidated"
  vin,              \* the text handed to validateAndFixKestraYaml
  vres,             \* what it returned
  vres2,            \* what it returned for the fixedYaml of vres
  conv,             \* the conversation whose RuntimeContext rtYaml.. is
  parked,           \* the RuntimeContext of the other conversation
  lastWritten,      \* per conversation, the document written last
  issued,           \* the identifiers resolved so far, with hint and timestamp
  initialized,      \* plugin-key-tool: module state
  initializationPromise,
  pluginCache,
  requests,         \* GET /plugins requests issued so far
  callers,          \* pluginKeyTool.execute calls: where each one stands
  wpc,              \* workflow run: the step at hand, or where it is suspended
  trace,            \* ids of the steps completed, in order
  wdata,            \* outputs of the completed steps
  creates           \* creation requests issued by provide-guidance

ctx == <<fcYaml, rtYaml, rtFlowId, rtNamespace>>
locals == <<params, flowYaml, finalFlowId, finalNamespace, timestamp, randomSuffix,
            updatedYaml, randomId, generated, posts, replies, errors, validationErrors>>
vars == <<pc, calls, fcYaml, rtYaml, rtFlowId, rtNamespace, params, flowYaml,
          finalFlowId, finalNamespace, timestamp, randomSuffix, updatedYaml,
          randomId, generated, posts, replies, errors, validationErrors, result,
          vpc, vin, vres, vres2, conv, parked, lastWritten, issued,
          initialized, initializationPromise, pluginCache, requests, callers,
          wpc, trace, wdata, creates>>
vvars == <<vpc, vin, vres, vres2>>
bvars == <<conv, parked, lastWritten>>
kvars == <<initialized, initializationPromise, pluginCache, requests, callers>>
wvars == <<wpc, trace, wdata, creates>>
\* what the publisher, the validator and the context writers never touch
xvars == <<issued, kvars, wvars>>

NoParams ==
  [flowYaml |-> NoText, namespace |-> <<>>, flowId |-> <<>>, flowPurpose |-> <<>>,
   hasRuntimeContext |-> FALSE, setThrows |-> "none"]

NoResult ==
  [success |-> FALSE, status |-> "none", flowId |-> <<>>, namespace |-> <<>>,
   errors |-> <<>>, validationErrors |-> <<>>]

\* YamlValidationResult; hasParsed and hasFixed tell parsedYaml and fixedYaml
\* from undefined
VResult(isValid, errs, fixes, hasParsed, parsedYaml, hasFixed, fixedYaml) ==
  [isValid |-> isValid, errors |-> errs, fixesMade |-> fixes,
   hasParsed |-> hasParsed, parsedYaml |-> parsedYaml,
   hasFixed |-> hasFixed, fixedYaml |-> fixedYaml]

NoVResult == VResult(FALSE, <<>>, <<>>, FALSE, <<>>, FALSE, NoText)

NoVInput == [yamlContent |-> NoText, reparseThrows |-> FALSE, docs |-> "absent"]

Result(success, status, id, ns, errs, verrs) ==
  [success |-> success, status |-> status, flowId |-> id, namespace |-> ns,
   errors |-> errs, validationErrors |-> verrs]

\* entries of the errors list
ErrNoYaml == [kind |-> "No flow YAML provided", id |-> <<>>, message |-> ""]
ErrExists(id) == [kind |-> "Flow ID already exists", id |-> id, message |-> ""]
ErrRetrying(id) == [kind |-> "Trying again with a random ID", id |-> id, message |-> ""]
ErrRejected(msg) == [kind |-> "YAML validation failed", id |-> <<>>, message |-> msg]
ErrApi(msg) == [kind |-> "error.message", id |-> <<>>, message |-> msg]
ErrUnexpected == [kind |-> "Unexpected error", id |-> <<>>, message |-> ""]

\* the call ends by the exception of a write that no try block encloses
Thrown ==
  Result(FALSE, "THROWN", <<>>, <<>>,
         <<[kind |-> "runtimeContext.set threw", id |-> <<>>, message |-> ""]>>, <<>>)

\* setThrows tells which writes of the call raise: none, those of the
\* RuntimeContext (runtimeContext.set), or that of the KestraFlowContext
\* (setFlowYaml); the flow id and namespace writes stand outside every try block
IdWritesFreeOfTry(p) ==
  p.hasRuntimeContext /\ p.setThrows = "runtime"
  /\ (p.flowId # <<>> \/ p.namespace # <<>>)

SyntaxErrorThrown(ns) == Thrown

\* the answer to a text that yaml.parse rejects
SyntaxErrorResult(ns) ==
  Result(FALSE, "VALIDATION_FAILED", <<>>, ns, <<>>, <<ErrSyntax>>)

\* the answer of the outer catch
UnexpectedErrorResult(ns) ==
  Result(FALSE, "ERROR", <<>>, ns, <<ErrUnexpected>>, <<>>)

\* the conversations that share the process
Convs == {1, 2}

\* a RuntimeContext nothing was stored in
NoParked == [yaml |-> NoText, flowId |-> <<>>, namespace |-> <<>>]

\* number of pluginKeyTool.execute calls that may be under way together
MaxCallers == 3

Callers == 1..MaxCallers

\* let pluginCache = {tasks: [], triggers: [], conditions: []}
EmptyCache == [tasks |-> <<>>, triggers |-> <<>>, conditions |-> <<>>]

\* a caller outside pluginKeyTool.execute
Idle == [at |-> "idle", waited |-> FALSE, got |-> EmptyCache, out |-> EmptyCache]

\* no step has produced an output
NoData ==
  [namespace |-> "", businessProcess |-> "", recommendedTasks |-> "", flowId |-> "",
   userInput |-> "none", approved |-> FALSE, needsRefinement |-> FALSE, message |-> ""]

Init ==
  /\ pc = "idle"
  /\ calls = 0
  /\ fcYaml = NoText
  /\ rtYaml = NoText
  /\ rtFlowId = <<>>
  /\ rtNamespace = <<>>
  /\ params = NoParams
  /\ flowYaml = NoText
  /\ finalFlowId = <<>>
  /\ finalNamespace = <<>>
  /\ timestamp = <<>>
  /\ randomSuffix = <<>>
  /\ updatedYaml = NoText
  /\ randomId = <<>>
  /\ generated = 0
  /\ posts = <<>>
  /\ replies = <<>>
  /\ errors = <<>>
  /\ validationErrors = <<>>
  /\ result = NoResult
  /\ vpc = "idle"
  /\ vin = NoVInput
  /\ vres = NoVResult
  /\ vres2 = NoVResult
  /\ conv = 1
  /\ parked = NoParked
  /\ lastWritten = [c \in Convs |-> NoText]
  /\ issued = <<>>
  /\ initialized = FALSE
  /\ initializationPromise = "pending"
  /\ pluginCache = EmptyCache
  /\ requests = 1
  /\ callers = [c \in Callers |-> Idle]
  /\ wpc = "idle"
  /\ trace = <<>>
  /\ wdata = NoData
  /\ creates = 0

(***************************************************************************)
(* createFlowTool.execute up to its first await                            *)
(***************************************************************************)
\* the text execute settles on: RuntimeContext, then KestraFlowContext, then input
ResolvedYaml(p) ==
  LET fromRt == IF p.hasRuntimeContext THEN rtYaml ELSE NoText
      fromCtx == IF fromRt # NoText THEN fromRt ELSE fcYaml
  IN  IF fromCtx # NoText THEN fromCtx ELSE p.flowYaml

Execute(p, ts, rnd) ==
  LET fromRt == IF p.hasRuntimeContext THEN rtYaml ELSE NoText
      fromCtx == IF fromRt # NoText THEN fromRt ELSE fcYaml
      useInput == fromCtx = NoText /\ p.flowYaml # NoText
      yamlContent == ResolvedYaml(p)
      parsed == Parse(yamlContent)
      verrs == ValidationErrors(parsed.top)
      fid == ResolveFlowId(p.flowId, p.flowPurpose, parsed.top, ts, rnd)
      fns == FinalNamespace(parsed.top, p.namespace)
      upd == UpdatedYaml(yamlContent, fid, fns)
      thrown == IdWritesFreeOfTry(p)
      resolved == /\ ~thrown /\ yamlContent # NoText
                  /\ parsed.ok /\ ~parsed.isNull /\ verrs = <<>>
      rtWrites == p.hasRuntimeContext /\ p.setThrows # "runtime"
  IN
  /\ pc = "idle"
  /\ calls < MaxCalls
  /\ UNCHANGED <<vvars, bvars, xvars>>
  /\ params' = p
  /\ fcYaml' = IF useInput /\ p.setThrows # "flow" THEN p.flowYaml ELSE fcYaml
  /\ rtYaml' = IF /\ rtWrites /\ fromRt = NoText /\ yamlContent # NoText
                  /\ ~(useInput /\ p.setThrows = "flow")
               THEN yamlContent ELSE rtYaml
  /\ rtFlowId' = IF rtWrites /\ p.flowId # <<>> THEN p.flowId ELSE rtFlowId
  /\ rtNamespace' = IF rtWrites /\ p.namespace # <<>>
                    THEN p.namespace ELSE rtNamespace
  /\ flowYaml' = IF thrown THEN NoText ELSE yamlContent
  /\ finalFlowId' = IF resolved THEN fid ELSE <<>>
  /\ finalNamespace' = IF resolved THEN fns ELSE <<>>
  /\ timestamp' = IF resolved /\ p.flowId = <<>> THEN ts ELSE <<>>
  /\ randomSuffix' = IF resolved /\ p.flowId = <<>> THEN rnd ELSE <<>>
  /\ updatedYaml' = IF resolved THEN upd ELSE NoText
  /\ UNCHANGED <<calls, randomId, generated, replies, errors>>
  /\ IF thrown
     THEN /\ pc' = "done"
          /\ result' = Thrown
          /\ UNCHANGED <<posts, validationErrors>>
     ELSE IF yamlContent = NoText
     THEN /\ pc' = "done"
          /\ result' = Result(FALSE, "error",
                              <<>>, IF p.namespace # <<>> THEN p.namespace
                                    ELSE <<"d","e","f","a","u","l","t">>,
                              <<ErrNoYaml>>, <<>>)
          /\ UNCHANGED <<posts, validationErrors>>
     ELSE IF ~parsed.ok
     THEN /\ pc' = "done"
          /\ validationErrors' = <<ErrSyntax>>
          /\ result' = SyntaxErrorResult(p.namespace)
          /\ UNCHANGED posts
     ELSE IF parsed.isNull
     THEN /\ pc' = "done"
          /\ result' = UnexpectedErrorResult(p.namespace)
          /\ UNCHANGED <<posts, validationErrors>>
     ELSE IF verrs # <<>>
     THEN /\ pc' = "done"
          /\ validationErrors' = verrs
          /\ result' = Result(FALSE, "VALIDATION_FAILED", <<>>, p.namespace,
                              <<>>, verrs)
          /\ UNCHANGED posts
     ELSE IF ~Parse(upd).ok
     THEN /\ pc' = "done"
          /\ validationErrors' = <<ErrUpdatedSyntax>>
          /\ result' = Result(FALSE, "VALIDATION_FAILED", <<>>, fns,
                              <<>>, <<ErrUpdatedSyntax>>)
          /\ UNCHANGED posts
     ELSE /\ pc' = "post1"
          /\ posts' = <<[attemptFlowId |-> fid, body |-> PostBody(upd)]>>
          /\ UNCHANGED <<validationErrors, result>>

(***************************************************************************)
(* attemptCreateFlow: classification of the answer                         *)
(***************************************************************************)
IsSuccess(r) == r.status = 200

\* every 4xx answer taken for a conflict
IsConflictAnyClientError(r) == r.status \in {409, 422}

\* createResult.conflict
IsConflict(r) == r.status = 409

\* the remote message dropped from the error
CreateErrorNoMessage(r, attemptFlowId) ==
  IF r.status = 409 THEN ErrExists(attemptFlowId) ELSE ErrApi("request failed")

\* createResult.error
CreateError(r, attemptFlowId) ==
  IF r.status = 409 THEN ErrExists(attemptFlowId)
  ELSE IF r.status = 422 THEN ErrRejected(r.message)
  ELSE ErrApi(r.message)

\* first answer is a conflict: one random id, the id line rewritten, second request
RespondConflictRetry(r, ts, rnd) ==
  /\ pc = "post1"
  /\ UNCHANGED <<vvars, bvars, xvars>>
  /\ ~IsSuccess(r) /\ IsConflict(r)
  /\ LET rid == GenerateRandomFlowId(ts, rnd)
     IN  /\ randomId' = rid
         /\ generated' = generated + 1
         /\ errors' = errors \o <<CreateError(r, posts[Len(posts)].attemptFlowId),
                                  ErrRetrying(rid)>>
         /\ posts' = Append(posts, [attemptFlowId |-> rid,
                                    body |-> PostBody(PatchId(updatedYaml, rid))])
  /\ replies' = Append(replies, r)
  /\ pc' = "post2"
  /\ UNCHANGED <<calls, ctx, params, flowYaml, finalFlowId, finalNamespace, timestamp,
                 randomSuffix, updatedYaml, validationErrors, result>>

\* the request that decides the call failed: API_ERROR
RespondFailure(r) ==
  /\ pc \in {"post1", "post2"}
  /\ UNCHANGED <<vvars, bvars, xvars>>
  /\ ~IsSuccess(r)
  /\ pc = "post1" => ~IsConflict(r)
  /\ replies' = Append(replies, r)
  /\ errors' = Append(errors, CreateError(r, posts[Len(posts)].attemptFlowId))
  /\ result' = Result(FALSE, "API_ERROR", <<>>, finalNamespace, errors', validationErrors)
  /\ pc' = "done"
  /\ UNCHANGED <<calls, ctx, params, flowYaml, finalFlowId, finalNamespace, timestamp,
                 randomSuffix, updatedYaml, randomId, generated, posts, validationErrors>>

\* the request that decides the call succeeded: CREATED
RespondCreated(r) ==
  /\ pc \in {"post1", "post2"}
  /\ UNCHANGED <<vvars, bvars, xvars>>
  /\ IsSuccess(r)
  /\ replies' = Append(replies, r)
  /\ result' = Result(TRUE, "CREATED", finalFlowId, finalNamespace, errors, validationErrors)
  /\ pc' = "done"
  /\ UNCHANGED <<calls, ctx, params, flowYaml, finalFlowId, finalNamespace, timestamp,
                 randomSuffix, updatedYaml, randomId, generated, posts, errors,
                 validationErrors>>

\* the caller takes the result; the locals of the call are gone
Return ==
  /\ pc = "done"
  /\ UNCHANGED <<vvars, bvars, xvars>>
  /\ pc' = "idle"
  /\ calls' = calls + 1
  /\ params' = NoParams
  /\ flowYaml' = NoText
  /\ finalFlowId' = <<>>
  /\ finalNamespace' = <<>>
  /\ timestamp' = <<>>
  /\ randomSuffix' = <<>>
  /\ updatedYaml' = NoText
  /\ randomId' = <<>>
  /\ generated' = 0
  /\ posts' = <<>>
  /\ replies' = <<>>
  /\ errors' = <<>>
  /\ validationErrors' = <<>>
  /\ result' = NoResult
  /\ UNCHANGED ctx

\* a network run starts with a RuntimeContext of its own
NewRuntimeContext ==
  /\ pc = "idle"
  /\ UNCHANGED <<vvars, bvars, xvars>>
  /\ <<rtYaml, rtFlowId, rtNamespace>> # <<NoText, <<>>, <<>>>>
  /\ rtYaml' = NoText
  /\ rtFlowId' = <<>>
  /\ rtNamespace' = <<>>
  /\ UNCHANGED <<pc, calls, fcYaml, locals, result>>

ParamSets ==
  {p \in [flowYaml : Docs \cup {NoText}, namespace : Namespaces, flowId : FlowIds,
          flowPurpose : Purposes, hasRuntimeContext : BOOLEAN,
          setThrows : {"none", "runtime", "flow"}] :
     /\ p.setThrows = "runtime" => p.hasRuntimeContext
     /\ p.setThrows # "none" => p.flowId = <<>> /\ p.flowPurpose = <<>>}

Next ==
  \/ \E p \in ParamSets, ts \in Timestamps, rnd \in RandomSuffixes3 : Execute(p, ts, rnd)
  \/ \E r \in Responses, ts \in Timestamps, rnd \in RandomSuffixes6 :
       RespondConflictRetry(r, ts, rnd)
  \/ \E r \in Responses : RespondFailure(r)
  \/ \E r \in Responses : RespondCreated(r)
  \/ Return
  \/ NewRuntimeContext

Spec == Init /\ [][Next]_vars

(***************************************************************************)
(* yaml-validator: validateAndFixKestraYaml                                *)
(***************************************************************************)
IsValidOnlyWithoutErrors(errs, yamlModified) == errs = <<>>

\* if (result.errors.length === 0 || yamlModified) result.isValid = true
IsValidPolicy(errs, yamlModified) == errs = <<>> \/ yamlModified

\* the error list returned when yaml.parse(result.fixedYaml) throws
ReparseFailureErrors(errs) ==
  Append(errs, ZodErr("Error after applying fixes", -1, "", ""))

\* validateAndFixKestraYaml(yamlContent); reparseThrows: yaml.parse raises on the
\* text yaml.stringify has produced
validateAndFixKestraYaml(yamlContent, reparseThrows) ==
  LET parsed == Parse(yamlContent)
  IN  IF ~parsed.ok
      THEN VResult(FALSE, <<ZodErr("YAML syntax error", -1, "", "")>>, <<>>,
                   FALSE, <<>>, FALSE, NoText)
      ELSE LET errs == kestraFlowSchema(parsed)
               fixes == applyCommonFixes(parsed)
               yamlModified == fixes.fixes # <<>>
               fixedYaml == Stringify(fixes.top)
           IN  IF yamlModified /\ (reparseThrows \/ ~Parse(fixedYaml).ok)
               THEN VResult(FALSE, ReparseFailureErrors(errs), fixes.fixes,
                            ~parsed.isNull, fixes.top, FALSE, NoText)
               ELSE VResult(IsValidPolicy(errs, yamlModified), errs, fixes.fixes,
                            ~parsed.isNull, fixes.top, yamlModified,
                            IF yamlModified THEN fixedYaml ELSE NoText)

\* what kestraDocsFunction("", taskType) does: absent when the caller has no
\* documentation tool, empty for an answer without examples, adds for examples
\* with taskProperties {message: ...}, throws for a lookup that raises
DocsAnswers == {"absent", "empty", "adds", "throws"}

\* findMissingProperties and applyMissingProperties on one task
applyMissingProperties(task, docs) ==
  IF /\ TaskTruthy(TaskGet(task, "type")) /\ docs = "adds" /\ ~TaskHas(task, "message")
  THEN Fixed(TaskPut(task, "message",
                     StrTV(<<"<","V","a","l","u","e"," ","f","o","r"," ",
                             "m","e","s","s","a","g","e",">">>)),
             <<FixEntry("Added missing property 'message' to task", IdInMessage(task))>>)
  ELSE Fixed(task, <<>>)

\* enhanceYamlWithKestraDocs(yamlContent, kestraDocsFunction), from its
\* initialValidation = validateAndFixKestraYaml(yamlContent) on
enhanceYamlWithKestraDocs(initialValidation, docs) ==
  LET tasks == TaskList(initialValidation.parsedYaml)
      lookedUp == {i \in DOMAIN tasks : TaskTruthy(TaskGet(tasks[i], "type"))}
      enhanced == WithTasks(initialValidation.parsedYaml,
                            [i \in DOMAIN tasks |-> applyMissingProperties(tasks[i], docs)])
  IN  IF ~initialValidation.hasParsed THEN initialValidation
      ELSE IF docs = "throws" /\ lookedUp # {}
      THEN [initialValidation EXCEPT
              !.errors = Append(@, ZodErr("Error enhancing YAML with Kestra docs",
                                          -1, "", ""))]
      ELSE VResult(TRUE, initialValidation.errors,
                   initialValidation.fixesMade \o enhanced.fixes,
                   TRUE, enhanced.top, TRUE, Stringify(enhanced.top))

\* Step 3 of validateAndFixFlowYaml: the documentation lookup is tried when a
\* function is supplied and the basic validation is not valid
EnhanceIfInvalid(basicValidation, docs) ==
  IF docs # "absent" /\ ~basicValidation.isValid
  THEN enhanceYamlWithKestraDocs(basicValidation, docs)
  ELSE basicValidation

\* validateAndFixFlowYaml(runtimeContext, directYaml, kestraDocsFunction) on
\* the text it settled on: directYaml, else getStoredYaml(runtimeContext)
validateAndFixFlowYaml(yamlContent, reparseThrows, docs) ==
  IF yamlContent = NoText
  THEN VResult(FALSE,
               <<ZodErr("No YAML content found in context or provided directly",
                        -1, "", "")>>,
               <<>>, FALSE, <<>>, FALSE, NoText)
  ELSE EnhanceIfInvalid(validateAndFixKestraYaml(yamlContent, reparseThrows), docs)

(***************************************************************************)
(* Inputs of the validator                                                 *)
(***************************************************************************)
MaxTasks == 2

P(k, v) == [k |-> k, v |-> v]

\* the tasks the documents are built from
TaskKinds ==
  << <<P("id", T1), P("type", LogType)>>,
     <<P("type", LogType), P("retry", <<"3">>)>>,
     <<P("id", <<"t","2">>), P("type", LogType), P("retry", <<"x">>)>>,
     <<P("id", T1), P("env", <<"a">>)>>,
     <<P("id", EmptyQuoted), P("type", LogType), P("retry", <<"1","2">>),
       P("env", <<"{","\"","k","\"",":","\"","v","\"","}">>)>>,
     <<P("id", TaskIdText(2)), P("type", LogType)>> >>

\* a task as an element of a block sequence, and as a mapping under tasks:
ItemText(kind) ==
  [i \in DOMAIN kind |-> IF i = 1 THEN D(kind[i].k, kind[i].v) ELSE C(kind[i].k, kind[i].v)]

ObjectText(kind) == [i \in DOMAIN kind |-> C(kind[i].k, kind[i].v)]

TasksTexts ==
  {<<>>, <<L("tasks", <<>>)>>, <<L("tasks", EmptyFlowSeq)>>}
  \cup {<<L("tasks", <<>>)>> \o ObjectText(TaskKinds[k]) : k \in DOMAIN TaskKinds}
  \cup {<<L("tasks", <<>>)>> \o Flatten([i \in DOMAIN q |-> ItemText(TaskKinds[q[i]])]) :
          q \in UNION {[1..m -> DOMAIN TaskKinds] : m \in 1..MaxTasks}}

\* {id: "", namespace: "", tasks: []}
ScenarioA ==
  <<L("id", EmptyQuoted), L("namespace", EmptyQuoted), L("tasks", EmptyFlowSeq)>>

\* id and namespace each missing, empty or set, with every tasks text
VDocs ==
  ({i \o n \o t : i \in {<<>>, <<L("id", EmptyQuoted)>>, <<L("id", F1)>>},
                  n \in {<<>>, <<L("namespace", EmptyQuoted)>>,
                         <<L("namespace", Prod)>>},
                  t \in TasksTexts} \ {NoText})
  \cup {DocBad, DocNull}

(***************************************************************************)
(* The validator as a process                                              *)
(***************************************************************************)
Validate(yamlContent, reparseThrows) ==
  /\ vpc = "idle"
  /\ vpc' = "validated"
  /\ vin' = [yamlContent |-> yamlContent, reparseThrows |-> reparseThrows,
             docs |-> "absent"]
  /\ vres' = validateAndFixKestraYaml(yamlContent, reparseThrows)
  /\ UNCHANGED <<vres2, pc, calls, ctx, locals, result, bvars, xvars>>

\* the caller hands the fixedYaml to the validator once more
Revalidate ==
  /\ vpc = "validated"
  /\ vres.hasFixed
  /\ vpc' = "revalidated"
  /\ vres2' = validateAndFixKestraYaml(vres.fixedYaml, FALSE)
  /\ UNCHANGED <<vin, vres, pc, calls, ctx, locals, result, bvars, xvars>>

\* Step 4 of validateAndFixFlowYaml: the fixed text is written back into the
\* RuntimeContext the tool was given
WriteBack(hasRuntimeContext, finalValidation) ==
  IF /\ finalValidation.isValid /\ finalValidation.hasFixed
     /\ finalValidation.fixedYaml # NoText /\ hasRuntimeContext
  THEN finalValidation.fixedYaml ELSE NoText

\* validateYamlTool.execute -> validateAndFixFlowYaml
ValidateFlow(hasRuntimeContext, directYaml, reparseThrows, docs) ==
  \E yamlContent \in {IF directYaml # NoText THEN directYaml
                      ELSE IF hasRuntimeContext THEN rtYaml ELSE NoText} :
    \E finalValidation \in {validateAndFixFlowYaml(yamlContent, reparseThrows, docs)} :
      \E written \in {WriteBack(hasRuntimeContext, finalValidation)} :
        /\ vpc = "idle"
        /\ pc = "idle"
        /\ vpc' = "flowValidated"
        /\ vin' = [yamlContent |-> yamlContent, reparseThrows |-> reparseThrows,
                   docs |-> docs]
        /\ vres' = finalValidation
        /\ rtYaml' = IF written # NoText THEN written ELSE rtYaml
        /\ lastWritten' = IF written # NoText
                          THEN [lastWritten EXCEPT ![conv] = written]
                          ELSE lastWritten
        /\ UNCHANGED <<vres2, pc, calls, fcYaml, rtFlowId, rtNamespace, locals, result,
                       conv, parked, xvars>>

Forget ==
  /\ vpc \in {"validated", "revalidated", "flowValidated"}
  /\ vpc' = "idle"
  /\ vin' = NoVInput
  /\ vres' = NoVResult
  /\ vres2' = NoVResult
  /\ UNCHANGED <<pc, calls, ctx, locals, result, bvars, xvars>>

NextValidator ==
  \/ \E yamlContent \in VDocs, reparseThrows \in BOOLEAN :
       Validate(yamlContent, reparseThrows)
  \/ \E yamlContent \in VDocs, reparseThrows \in BOOLEAN, docs \in DocsAnswers :
       ValidateFlow(FALSE, yamlContent, reparseThrows, docs)
  \/ Revalidate
  \/ Forget

SpecValidator == Init /\ [][NextValidator]_vars

(***************************************************************************)
(* The writers of the two context stores, two conversations in one process *)
(***************************************************************************)
\* extractAndStoreYaml(text, runtimeContext): the text it stores under
\* kestraFlowYaml, NoText when it stores nothing. fenced: the text carries the
\* document in a ```yaml block; otherwise the text must start with id: or
\* hold a line that starts with id:
extractAndStoreYaml(fenced, text) ==
  IF fenced THEN text
  ELSE IF /\ text # NoText
          /\ \/ ~text[1].dash /\ ~text[1].q /\ text[1].key = "id"
             \/ \E i \in 2..Len(text) : text[i] = L("id", text[i].val)
  THEN text ELSE NoText

\* the documents the agents of each conversation produce
ConvDocs == <<{DocPlain, DocQuotedId}, {DocNoNs}>>

\* saveFlowYamlTool.execute({flowYaml}, ctx)
SaveFlowYaml(text, hasRuntimeContext) ==
  /\ pc = "idle" /\ vpc = "idle"
  /\ fcYaml' = text
  /\ rtYaml' = IF hasRuntimeContext /\ extractAndStoreYaml(FALSE, text) # NoText
               THEN extractAndStoreYaml(FALSE, text) ELSE rtYaml
  /\ lastWritten' = [lastWritten EXCEPT ![conv] = text]
  /\ UNCHANGED <<pc, calls, rtFlowId, rtNamespace, locals, result, vvars, conv, parked,
                 xvars>>

\* useKestraAgentNetwork after the loop: the answer of the network is
\* searched for a document
AgentAnswers(fenced, text) ==
  /\ pc = "idle" /\ vpc = "idle"
  /\ extractAndStoreYaml(fenced, text) # NoText
  /\ rtYaml' = extractAndStoreYaml(fenced, text)
  /\ lastWritten' = [lastWritten EXCEPT ![conv] = extractAndStoreYaml(fenced, text)]
  /\ UNCHANGED <<pc, calls, fcYaml, rtFlowId, rtNamespace, locals, result, vvars, conv,
                 parked, xvars>>

\* the next tool call belongs to the other conversation, which has a
\* RuntimeContext of its own; the KestraFlowContext is the one of the process
SwitchConversation ==
  /\ pc = "idle" /\ vpc = "idle"
  /\ conv' = 3 - conv
  /\ parked' = [yaml |-> rtYaml, flowId |-> rtFlowId, namespace |-> rtNamespace]
  /\ rtYaml' = parked.yaml
  /\ rtFlowId' = parked.flowId
  /\ rtNamespace' = parked.namespace
  /\ UNCHANGED <<pc, calls, fcYaml, locals, result, vvars, lastWritten, xvars>>

\* a publish call that is not handed a document
FromContext(hasRuntimeContext) ==
  [flowYaml |-> NoText, namespace |-> CompanyTeam, flowId |-> <<>>,
   flowPurpose |-> <<>>, hasRuntimeContext |-> hasRuntimeContext, setThrows |-> "none"]

\* the answers of the remote service followed while the stores are written
BridgeResponses == {r \in Responses : r.status \in {200, 409, 500}}

NextBridge ==
  \/ \E d \in ConvDocs[conv], h \in BOOLEAN : SaveFlowYaml(d, h)
  \/ \E d \in ConvDocs[conv], fenced \in BOOLEAN : AgentAnswers(fenced, d)
  \/ \E docs \in DocsAnswers : ValidateFlow(TRUE, NoText, FALSE, docs)
  \/ Forget
  \/ \E h \in BOOLEAN, ts \in Timestamps :
       Execute(FromContext(h), ts, <<"x","y","z">>)
  \/ \E r \in BridgeResponses, ts \in Timestamps :
       RespondConflictRetry(r, ts, <<"q","r","s","t","u","v">>)
  \/ \E r \in BridgeResponses : RespondFailure(r)
  \/ \E r \in BridgeResponses : RespondCreated(r)
  \/ Return
  \/ SwitchConversation

SpecBridge == Init /\ [][NextBridge]_vars

(***************************************************************************)
(* Identifiers resolved one after the other within one millisecond         *)
(***************************************************************************)
\* number of resolutions followed
MaxResolutions == 3

\* the id a publish call resolves from a purpose hint (or, without one, from
\* the document) at Date.now() = ts when Math.random() yields rnd
ResolveId(purpose, ts, rnd) ==
  /\ Len(issued) < MaxResolutions
  /\ issued' = Append(issued,
                      [flowPurpose |-> purpose, timestamp |-> ts,
                       id |-> ResolveFlowId(<<>>, purpose, Parse(DocPlain).top, ts, rnd)])
  /\ UNCHANGED <<pc, calls, ctx, locals, result, vvars, bvars, kvars, wvars>>

\* the id generateRandomFlowId makes for a retry
GenerateId(ts, rnd) ==
  /\ Len(issued) < MaxResolutions
  /\ issued' = Append(issued,
                      [flowPurpose |-> <<"r","e","t","r","y">>, timestamp |-> ts,
                       id |-> GenerateRandomFlowId(ts, rnd)])
  /\ UNCHANGED <<pc, calls, ctx, locals, result, vvars, bvars, kvars, wvars>>

NextIds ==
  \/ \E purpose \in Purposes, ts \in Timestamps, rnd \in RandomSuffixes3 :
       ResolveId(purpose, ts, rnd)
  \/ \E ts \in Timestamps, rnd \in RandomSuffixes6 : GenerateId(ts, rnd)

SpecIds == Init /\ [][NextIds]_vars

(***************************************************************************)
(* plugin-key-tool: the cache of plugin class names                        *)
(***************************************************************************)
\* number of GET /plugins requests followed
MaxRequests == 3

\* the task class names GET /plugins may deliver, sorted and deduplicated
PluginLists == {<<>>, <<"Log">>, <<"Bash", "Log">>}

\* the lists pluginKeyTool.execute serves when the cache holds no task
FallbackPlugins ==
  [tasks |-> <<"Request", "Copy", "Log", "Bash", "Python">>,
   triggers |-> <<"Schedule", "Webhook">>,
   conditions |-> <<"Success", "TimeBetween">>]

\* a catch block that leaves the cache uninitialized
AfterFailureRetry == [initialized |-> FALSE, initializationPromise |-> "null"]

\* the catch block of initializePluginCache: initialized = true,
\* initializationPromise = null
AfterFailure == [initialized |-> TRUE, initializationPromise |-> "null"]

\* pluginKeyTool.execute up to its await: initializePluginCache() returns the
\* cache, or the promise of the fetch under way, or starts the fetch
CallPluginKeyTool(c) ==
  /\ callers[c].at = "idle"
  /\ IF initialized
     THEN /\ callers' = [callers EXCEPT ![c] = [Idle EXCEPT !.at = "ready",
                                                           !.got = pluginCache]]
          /\ UNCHANGED <<initialized, initializationPromise, pluginCache, requests>>
     ELSE IF initializationPromise = "pending"
     THEN /\ callers' = [callers EXCEPT ![c] = [Idle EXCEPT !.at = "waiting",
                                                           !.waited = TRUE]]
          /\ UNCHANGED <<initialized, initializationPromise, pluginCache, requests>>
     ELSE /\ requests < MaxRequests
          /\ requests' = requests + 1
          /\ initializationPromise' = "pending"
          /\ callers' = [callers EXCEPT ![c] = [Idle EXCEPT !.at = "waiting",
                                                           !.waited = TRUE]]
          /\ UNCHANGED <<initialized, pluginCache>>
  /\ UNCHANGED <<pc, calls, ctx, locals, result, vvars, bvars, issued, wvars>>

\* the callers that awaited the promise go on with what it resolved to
Settled(value) ==
  [c \in Callers |-> IF callers[c].at = "waiting"
                     THEN [callers[c] EXCEPT !.at = "ready", !.got = value]
                     ELSE callers[c]]

\* axios.get answered: the lists are stored
FetchSucceeds(tasks) ==
  /\ initializationPromise = "pending"
  /\ pluginCache' = [EmptyCache EXCEPT !.tasks = tasks]
  /\ initialized' = TRUE
  /\ initializationPromise' = "null"
  /\ callers' = Settled(pluginCache')
  /\ UNCHANGED <<requests, pc, calls, ctx, locals, result, vvars, bvars, issued, wvars>>

\* axios.get raised, or answered without data
FetchFails ==
  /\ initializationPromise = "pending"
  /\ initialized' = AfterFailure.initialized
  /\ initializationPromise' = AfterFailure.initializationPromise
  /\ callers' = Settled(pluginCache)
  /\ UNCHANGED <<pluginCache, requests, pc, calls, ctx, locals, result, vvars, bvars,
                 issued, wvars>>

\* pluginKeyTool.execute after its await
ToolReturns(c) ==
  /\ callers[c].at = "ready"
  /\ callers' = [callers EXCEPT ![c].at = "returned",
                                ![c].out = IF pluginCache.tasks = <<>>
                                           THEN FallbackPlugins ELSE pluginCache]
  /\ UNCHANGED <<initialized, initializationPromise, pluginCache, requests, pc, calls,
                 ctx, locals, result, vvars, bvars, issued, wvars>>

\* the agent has taken the lists
ToolDone(c) ==
  /\ callers[c].at = "returned"
  /\ callers' = [callers EXCEPT ![c] = Idle]
  /\ UNCHANGED <<initialized, initializationPromise, pluginCache, requests, pc, calls,
                 ctx, locals, result, vvars, bvars, issued, wvars>>

NextPlugins ==
  \/ \E c \in Callers : CallPluginKeyTool(c)
  \/ \E tasks \in PluginLists : FetchSucceeds(tasks)
  \/ FetchFails
  \/ \E c \in Callers : ToolReturns(c)
  \/ \E c \in Callers : ToolDone(c)

SpecPlugins == Init /\ [][NextPlugins]_vars

(***************************************************************************)
(* workflows/kestra-flow-generation: one run of the chain                  *)
(***************************************************************************)
\* .then(getUserRequirementsStep) ... .then(provideGuidanceStep).commit()
StepOrder ==
  <<"get-user-requirements", "research-similar-flows", "generate-yaml", "approval",
    "conditional-routing", "provide-guidance">>

\* what every action of the workflow leaves alone
notWorkflow == <<pc, calls, ctx, locals, result, vvars, bvars, issued, kvars>>

\* the step is over with an output: the chain moves on
Completed(next) ==
  /\ trace' = Append(trace, wpc)
  /\ wpc' = next

\* the run is started with its input
StartRun(namespace) ==
  /\ wpc = "idle"
  /\ wpc' = "get-user-requirements"
  /\ wdata' = [NoData EXCEPT !.namespace = namespace]
  /\ UNCHANGED <<trace, creates, notWorkflow>>

\* execute without resumeData calls suspend: the run is suspended in the step,
\* and what execute returns after suspend is no output
Suspend(step) ==
  /\ wpc = step
  /\ wpc' = "suspended"
  /\ UNCHANGED <<trace, wdata, creates, notWorkflow>>

\* getUserRequirementsStep resumed: execute returns resumeData
ResumeRequirements(businessProcess) ==
  /\ wpc = "suspended" /\ Len(trace) = 0
  /\ trace' = Append(trace, "get-user-requirements")
  /\ wpc' = "research-similar-flows"
  /\ wdata' = [wdata EXCEPT !.businessProcess = businessProcess]
  /\ UNCHANGED <<creates, notWorkflow>>

\* researchSimilarFlowsStep: the answer of the design agent, or the fallback
\* of the catch block
Research(agentAnswers) ==
  /\ wpc = "research-similar-flows"
  /\ Completed("generate-yaml")
  /\ wdata' = [wdata EXCEPT !.recommendedTasks =
                              IF agentAnswers THEN "recommended" ELSE "log, echo"]
  /\ UNCHANGED <<creates, notWorkflow>>

\* generateYamlStep: the agent returns a text with an id line, or no object,
\* or raises; nothing catches here
GenerateYaml(outcome) ==
  /\ wpc = "generate-yaml"
  /\ IF outcome = "throws"
     THEN wpc' = "failed" /\ UNCHANGED <<trace, wdata>>
     ELSE /\ Completed("approval")
          /\ wdata' = [wdata EXCEPT !.flowId = IF outcome = "yaml" THEN "my-flow"
                                               ELSE "generated-flow"]
  /\ UNCHANGED <<creates, notWorkflow>>

\* approvalStep resumed with {approved, flowFeedback}
ResumeApproval(approved) ==
  /\ wpc = "suspended" /\ Len(trace) = 3
  /\ trace' = Append(trace, "approval")
  /\ wpc' = "conditional-routing"
  /\ wdata' = [wdata EXCEPT !.userInput = IF approved THEN "y" ELSE "feedback",
                            !.approved = approved]
  /\ UNCHANGED <<creates, notWorkflow>>

\* the step conditional-routing
ConditionalRouting ==
  /\ wpc = "conditional-routing"
  /\ Completed("provide-guidance")
  /\ wdata' = [wdata EXCEPT !.needsRefinement = ~wdata.approved]
  /\ UNCHANGED <<creates, notWorkflow>>

\* a guidance step that asks for the creation whatever the user said
ShouldCreateAlways(approved) == TRUE

\* if (approved)
ShouldCreate(approved) == approved

\* provideGuidanceStep up to its await, or to its end when not approved
ProvideGuidance ==
  /\ wpc = "provide-guidance"
  /\ IF ShouldCreate(wdata.approved)
     THEN /\ creates' = creates + 1
          /\ wpc' = "creating"
          /\ UNCHANGED <<trace, wdata>>
     ELSE /\ Completed("success")
          /\ wdata' = [wdata EXCEPT !.message = "not approved"]
          /\ UNCHANGED creates
  /\ UNCHANGED notWorkflow

\* kestraFlowExecutionAgent.generate answered: success, no success, or raised
CreateAnswered(outcome) ==
  /\ wpc = "creating"
  /\ trace' = Append(trace, "provide-guidance")
  /\ wpc' = "success"
  /\ wdata' = [wdata EXCEPT !.message =
                              IF outcome = "success" THEN "created and executed"
                              ELSE IF outcome = "no success" THEN "issue creating"
                              ELSE "error creating"]
  /\ UNCHANGED <<creates, notWorkflow>>

\* the run is over and its result taken
EndRun ==
  /\ wpc \in {"success", "failed"}
  /\ wpc' = "idle"
  /\ trace' = <<>>
  /\ wdata' = NoData
  /\ creates' = 0
  /\ UNCHANGED notWorkflow

NextWorkflow ==
  \/ \E namespace \in {"company.team", "prod"} : StartRun(namespace)
  \/ \E step \in {"get-user-requirements", "approval"} : Suspend(step)
  \/ \E businessProcess \in {"", "orders"} : ResumeRequirements(businessProcess)
  \/ \E agentAnswers \in BOOLEAN : Research(agentAnswers)
  \/ \E outcome \in {"yaml", "no object", "throws"} : GenerateYaml(outcome)
  \/ \E approved \in BOOLEAN : ResumeApproval(approved)
  \/ ConditionalRouting
  \/ ProvideGuidance
  \/ \E outcome \in {"success", "no success", "throws"} : CreateAnswered(outcome)
  \/ EndRun

SpecWorkflow == Init /\ [][NextWorkflow]_vars

(***************************************************************************)
(* Properties                                                              *)
(***************************************************************************)
\* the identifier and the namespace have been resolved and the text patched
Resolved == updatedYaml # NoText

\* the message pattern by which the remote reports identifier reuse
MentionsAlreadyExists(msg) == msg = "flow id already exists"

BodyTop(k) == Parse(posts[k].body).top

C2_RetryReportsFallbackId ==
  (pc = "done" /\ Len(replies) = 2 /\ replies[1].status = 409 /\ IsSuccess(replies[2])) =>
    /\ result.status = "CREATED"
    /\ Len(posts) = 2
    /\ result.flowId = randomId
    /\ result.flowId # posts[1].attemptFlowId

\* a failure that is an identifier conflict neither by status nor by message
NonConflictFailure(r) ==
  ~IsSuccess(r) /\ r.status # 409 /\ ~MentionsAlreadyExists(r.message)

\* C3: a create request that fails for a reason other than an identifier
\* conflict is the last request of the call (the only one when it is the first),
\* and the call returns a failure whose errors carry the remote message.
C3_NoRetryOnNonConflict ==
  \A k \in DOMAIN replies :
    NonConflictFailure(replies[k]) =>
      /\ Len(posts) = k
      /\ pc = "done"
      /\ ~result.success
      /\ result.status = "API_ERROR"
      /\ \E i \in DOMAIN result.errors : result.errors[i].message = replies[k].message

\* the first request was rejected with 422 and the call ended after that one request
C3_Witness ==
  /\ pc = "done"
  /\ Len(posts) = 1
  /\ replies = <<[status |-> 422, message |-> "invalid flow"]>>
  /\ result.status = "API_ERROR"

\* the minimal schema: parses, id, namespace, a non-empty sequence of tasks
StructurallyValid(text) ==
  /\ Parse(text).ok
  /\ Truthy(Get(Parse(text).top, "id"))
  /\ Truthy(Get(Parse(text).top, "namespace"))
  /\ ~TasksInvalid(Parse(text).top)

\* C4: a text that does not parse or violates the minimal schema leads to a
\* result with diagnostics and no request, and no body that fails structural
\* validation is ever posted.
C4_NoInvalidDocumentSent ==
  /\ (pc # "idle" /\ flowYaml # NoText
        /\ (~Parse(flowYaml).ok \/ ValidationErrors(Parse(flowYaml).top) # <<>>)) =>
       /\ posts = <<>>
       /\ result.status = "VALIDATION_FAILED"
       /\ result.validationErrors # <<>>
  /\ \A k \in DOMAIN posts : StructurallyValid(posts[k].body)

\* C5: a first create that fails with status 409, or with any status and a
\* message saying the identifier already exists, is followed by the one retry.
C5_AlreadyExistsMessageRetried ==
  (Len(replies) >= 1 /\ ~IsSuccess(replies[1])
     /\ (replies[1].status = 409 \/ MentionsAlreadyExists(replies[1].message))) =>
    Len(posts) = 2

RECURSIVE AlnumOnly(_)
AlnumOnly(s) ==
  IF s = <<>> THEN <<>>
  ELSE IF Head(s) \in LowerAlnum THEN <<Head(s)>> \o AlnumOnly(Tail(s))
  ELSE AlnumOnly(Tail(s))

\* r is a slug of h: the lower-cased letters and digits of h in order, joined
\* by single "_", none leading or trailing
IsSlugOf(r, h) ==
  /\ AlnumOnly(r) = AlnumOnly(ToLowerCase(h))
  /\ \A i \in DOMAIN r : r[i] \in LowerAlnum \cup {"_"}
  /\ r # <<>> => r[1] # "_" /\ r[Len(r)] # "_"
  /\ \A i \in 1..(Len(r) - 1) : ~(r[i] = "_" /\ r[i + 1] = "_")

\* id = root _ timestamp _ randomSuffix
HasRootAndSuffix(id, root) ==
  id = root \o <<"_">> \o timestamp \o <<"_">> \o randomSuffix

\* C6: an explicit id is used exactly as given; otherwise a purpose hint gives
\* the root (its slug) and the id of the document is ignored; otherwise the
\* root is the id of the document; in both latter cases the suffix follows.
C6_IdPrecedence ==
  Resolved =>
    IF params.flowId # <<>> THEN finalFlowId = params.flowId
    ELSE IF params.flowPurpose # <<>>
    THEN \E n \in 0..Len(finalFlowId) :
           /\ IsSlugOf(SubSeq(finalFlowId, 1, n), params.flowPurpose)
           /\ HasRootAndSuffix(finalFlowId, SubSeq(finalFlowId, 1, n))
    ELSE HasRootAndSuffix(finalFlowId, Get(Parse(flowYaml).top, "id").s)

\* a hint was given together with a document id and no explicit id: the id is
\* the slug of the hint followed by the suffix
C6_Witness ==
  /\ Resolved
  /\ params.flowId = <<>>
  /\ params.flowPurpose = <<"A"," ","!","b">>
  /\ Get(Parse(flowYaml).top, "id").s = F1
  /\ finalFlowId = <<"a","_","b","_","k","1","_","x","y","z">>

Separators == {"_", "-", "."}

\* lower-case alphanumerics joined by single separators
SlugLike(s) ==
  /\ s # <<>>
  /\ \A i \in DOMAIN s : s[i] \in LowerAlnum \cup Separators
  /\ s[1] \in LowerAlnum
  /\ s[Len(s)] \in LowerAlnum
  /\ \A i \in 1..(Len(s) - 1) : ~(s[i] \in Separators /\ s[i + 1] \in Separators)

\* C8: every posted body has a top-level id and namespace that are non-empty
\* slug-like tokens.
C8_SentIdsAreSlugs ==
  \A k \in DOMAIN posts :
    /\ Get(BodyTop(k), "id").t = "str"
    /\ SlugLike(Get(BodyTop(k), "id").s)
    /\ Get(BodyTop(k), "namespace").t = "str"
    /\ SlugLike(Get(BodyTop(k), "namespace").s)

\* C9: every posted body has the top-level namespace equal to the resolved
\* namespace and no top-level defaultNamespace.
C9_NamespaceNormalised ==
  \A k \in DOMAIN posts :
    /\ Get(BodyTop(k), "namespace") = StrV(finalNamespace)
    /\ ~Has(BodyTop(k), "defaultNamespace")

TopKeys(top) == {top[i].key : i \in DOMAIN top}

\* C10: apart from the top-level id and namespace (and the defaultNamespace
\* alias) every top-level field of every posted body equals that field of the
\* input document, tasks with all their properties included.
C10_OnlyIdAndNamespaceChange ==
  \A k \in DOMAIN posts :
    \A key \in (TopKeys(BodyTop(k)) \cup TopKeys(Parse(flowYaml).top))
                 \ {"id", "namespace", "defaultNamespace"} :
      Get(BodyTop(k), key) = Get(Parse(flowYaml).top, key)

\* the statuses of a returned result
Statuses == {"error", "VALIDATION_FAILED", "API_ERROR", "CREATED", "ERROR"}

\* C11: a write to the RuntimeContext or to the KestraFlowContext that raises
\* during a publish never changes the outcome: nothing is thrown to the caller
\* and the call ends with the result the document and the remote answers
\* determine.
C11_ContextWriteFailureHarmless ==
  (pc = "done" /\ params.setThrows # "none") =>
     /\ result.status \in Statuses
     /\ result.success = (result.status = "CREATED")

\* C12: whatever the document text and whatever the remote service does, the
\* call ends with a structured result (boolean success, a status, the two error
\* lists); an exception of yaml.parse or of axios.post never reaches the
\* caller, the only exception that does is that of a context write.
C12_StructuredResult ==
  pc = "done" =>
    /\ result.status = "THROWN" => params.setThrows = "runtime"
    /\ result.status # "THROWN" =>
         /\ result.status \in Statuses
         /\ result.success \in BOOLEAN
         /\ result.success = (result.status = "CREATED")
         /\ result.errors = errors \/ result.errors \in {<<ErrNoYaml>>, <<ErrUnexpected>>}
         /\ result.validationErrors = validationErrors
    /\ (params.setThrows # "runtime" /\ flowYaml # NoText /\ ~Parse(flowYaml).ok) =>
         /\ result.status = "VALIDATION_FAILED"
         /\ result.validationErrors = <<ErrSyntax>>
    /\ (replies # <<>> /\ ~IsSuccess(replies[Len(replies)])) =>
         /\ result.status = "API_ERROR"
         /\ result.errors # <<>>

\* a network exception on the only create request, and a text that does not parse
C12_Witness ==
  /\ pc = "done"
  /\ \/ Len(replies) = 1 /\ replies[1].status = 0 /\ result.status = "API_ERROR"
     \/ flowYaml = DocBad /\ result.status = "VALIDATION_FAILED"

(***************************************************************************)
(* Properties of the validator                                             *)
(***************************************************************************)
\* the parsed input of the validation at hand
Input == Parse(vin.yamlContent)

\* a mapping was parsed and validated
ValidatedMapping == vpc = "validated" /\ Input.ok /\ ~Input.isNull

\* yaml.parse raised on the re-serialised text
ReparseFailed == vin.reparseThrows /\ vres.fixesMade # <<>>

NonEmptyString(has, t, s) == has /\ t = "str" /\ s # <<>> /\ ~IsNumberText(s)

\* where a diagnostic points: field, element, property
Place(field, index, sub) == [field |-> field, index |-> index, sub |-> sub]

PlaceOf(e) == Place(e.field, e.index, e.sub)

\* the violated rules of a task, id before type
TaskViolations(task, i) ==
  (IF ~NonEmptyString(TaskHas(task, "id"), TaskGet(task, "id").t, TaskGet(task, "id").s)
   THEN <<Place("tasks", i - 1, "id")>> ELSE <<>>)
  \o (IF ~NonEmptyString(TaskHas(task, "type"), TaskGet(task, "type").t,
                         TaskGet(task, "type").s)
      THEN <<Place("tasks", i - 1, "type")>> ELSE <<>>)

\* the violated rules of a document, in the order id, namespace, tasks
Violations(top) ==
  (IF ~NonEmptyString(Has(top, "id"), Get(top, "id").t, Get(top, "id").s)
   THEN <<Place("id", -1, "")>> ELSE <<>>)
  \o (IF ~NonEmptyString(Has(top, "namespace"), Get(top, "namespace").t,
                         Get(top, "namespace").s)
      THEN <<Place("namespace", -1, "")>> ELSE <<>>)
  \o (IF ~Has(top, "tasks") \/ ~IsArray(Get(top, "tasks"))
         \/ Len(Get(top, "tasks").items) = 0
      THEN <<Place("tasks", -1, "")>>
      ELSE Flatten([i \in DOMAIN Get(top, "tasks").items |->
                      TaskViolations(Get(top, "tasks").items[i], i)]))

EmptyTaskList == Has(Input.top, "tasks") /\ IsArray(Get(Input.top, "tasks"))
                 /\ Len(Get(Input.top, "tasks").items) = 0

\* C14: a document whose task list is empty, {id: "", namespace: "", tasks: []}
\* among them, is never reported valid by validate-and-repair.
C14_EmptyTaskListNeverValid ==
  (ValidatedMapping /\ EmptyTaskList) => ~vres.isValid

SingleObjectBareRetry ==
  LET v == Get(Input.top, "tasks")
  IN  /\ v.t = "map"
      /\ ~TaskHas(v.items[1], "id")
      /\ IsNumberText(TaskGet(v.items[1], "retry").s)

\* C16: the rules run in the order namespace, missing tasks, wrap, task ids,
\* retry, env, each on the output of the one before: after one pass a document
\* whose tasks is a single object without id and with a bare numeric retry N
\* has tasks a one-element sequence whose task has id task-1 and retry
\* {type: "constant", maxAttempt: N}.
C16_OnePassRepairsWrappedTask ==
  (ValidatedMapping /\ SingleObjectBareRetry) =>
     LET v == Get(vres.parsedYaml, "tasks")
         n == TaskGet(Get(Input.top, "tasks").items[1], "retry").s
     IN  /\ IsArray(v) /\ Len(v.items) = 1
         /\ TaskGet(v.items[1], "id") = StrTV(TaskIdText(1))
         /\ TaskGet(v.items[1], "retry")
              = MapTV(<<[key |-> "type", s |-> ConstantText],
                        [key |-> "maxAttempt", s |-> n]>>)

\* C17: the repair is idempotent: a second pass over the output of the first
\* applies no fix and leaves the document as it is.
C17_RepairIdempotent ==
  vpc = "revalidated" =>
     /\ vres2.fixesMade = <<>>
     /\ ~vres2.hasFixed
     /\ vres2.parsedYaml = vres.parsedYaml

\* maxAttempt of every normalised retry of a parsed document is an integer
RetriesAreIntegers(top) ==
  \A i \in DOMAIN Get(top, "tasks").items :
    LET r == TaskGet(Get(top, "tasks").items[i], "retry")
    IN  r.t = "map" =>
          \A k \in DOMAIN r.m : r.m[k].key = "maxAttempt" => IsNumberText(r.m[k].s)

\* C18: a bare retry (an integer N >= 0, a numeric string, or a value that does
\* not parse as an integer) becomes {type: "constant", maxAttempt: N}, with 1
\* for the value that does not parse, one fix entry per task; the same
\* normalisation made by the publisher just before sending never produces a
\* maxAttempt that is not an integer either.
C18_RetryNormalisedToInteger ==
  \A k \in DOMAIN posts : RetriesAreIntegers(BodyTop(k))

NamespaceFixes ==
  {i \in DOMAIN vres.fixesMade : vres.fixesMade[i].kind = "Added missing namespace"}

C20_ReparseFailureKeepsErrors ==
  (vpc = "validated" /\ Input.ok /\ ReparseFailed) =>
     /\ ~vres.hasFixed
     /\ ~vres.isValid
     /\ vres.errors = kestraFlowSchema(Input)

\* C24: a publish call that is handed a document in its input validates and
\* sends that document, whatever the RuntimeContext and the KestraFlowContext
\* hold.
C24_InputDocumentUsed ==
  (pc # "idle" /\ params.flowYaml # NoText /\ result # Thrown) =>
    /\ flowYaml = params.flowYaml
    /\ \A k \in DOMAIN posts :
         \A key \in TopKeys(BodyTop(k)) \ {"id", "namespace", "defaultNamespace"} :
           Get(BodyTop(k), key) = Get(Parse(params.flowYaml).top, key)

\* C26: on every result with status CREATED the flowId of the result is the
\* top-level id of the body the remote accepted, whatever the shape of the id
\* line of the input document.
C26_CreatedIdIsAcceptedId ==
  (pc = "done" /\ result.status = "CREATED") =>
    Get(BodyTop(Len(posts)), "id") = StrV(result.flowId)

\* the tasks that carry an id carry pairwise different ones
PresentIdsDistinct(tasks) ==
  \A i, j \in DOMAIN tasks :
    (i # j /\ TaskTruthy(TaskGet(tasks[i], "id")) /\ TaskTruthy(TaskGet(tasks[j], "id")))
      => TaskGet(tasks[i], "id") # TaskGet(tasks[j], "id")

AllIdsDistinct(tasks) ==
  \A i, j \in DOMAIN tasks : i # j => TaskGet(tasks[i], "id") # TaskGet(tasks[j], "id")

\* C28: when the ids present on the tasks of the input are pairwise distinct,
\* the task ids of the repaired document, the synthesized task-<index> ids
\* included, are pairwise distinct.
C28_RepairKeepsTaskIdsDistinct ==
  (ValidatedMapping /\ vres.hasParsed /\ PresentIdsDistinct(TaskList(Input.top)))
    => AllIdsDistinct(TaskList(vres.parsedYaml))

\* a validation result is at hand, of validateAndFixKestraYaml or of
\* validateAndFixFlowYaml
AnyResult == vpc \in {"validated", "flowValidated"}

\* C21: in every validation result, those of the documentation-enhancement
\* path included, a fixedYaml is present only if at least one repair was
\* applied, and the repaired text re-parses.
C21_FixedOnlyAfterRepair ==
  (AnyResult /\ vres.hasFixed) =>
    /\ vres.fixesMade # <<>>
    /\ Parse(vres.fixedYaml).ok

\* C27: validateAndFixFlowYaml reports isValid = true only when the error list
\* is empty or at least one fix was made, with or without a documentation
\* lookup function.
C27_ValidOnlyWithoutErrorsOrAfterFix ==
  (vpc = "flowValidated" /\ vres.isValid) =>
    (vres.errors = <<>> \/ vres.fixesMade # <<>>)

\* C22: after any sequence of document writes in a conversation (saves by
\* saveFlowYamlTool, captures by extractAndStoreYaml, write-backs of the
\* validator) a publish call that is not handed a document, and is given the
\* RuntimeContext of the conversation, works on the document written last,
\* never on an older one left in a store.
C22_PublishUsesLatestWrite ==
  (/\ pc # "idle" /\ params.flowYaml = NoText /\ params.hasRuntimeContext
   /\ lastWritten[conv] # NoText)
    => flowYaml = lastWritten[conv]

\* the documents of a conversation: those its agents produce and their
\* repaired forms; the two conversations have no document in common
DocsOf(c) ==
  ConvDocs[c]
  \cup {validateAndFixFlowYaml(d, FALSE, a).fixedYaml :
          d \in ConvDocs[c], a \in DocsAnswers}

\* C23: a document written in one conversation is never validated or
\* published by a tool call of the other conversation.
C23_ConversationsIsolated ==
  /\ (pc # "idle" /\ flowYaml # NoText) => flowYaml \in DocsOf(conv)
  /\ (vpc = "flowValidated" /\ vin.yamlContent # NoText)
       => vin.yamlContent \in DocsOf(conv)

\* C25: resolutions of the same purpose hint within the same millisecond (the
\* same base-36 timestamp) never produce two equal identifiers.
C25_SameMillisecondIdsDiffer ==
  \A i, j \in DOMAIN issued :
    (/\ i # j
     /\ issued[i].flowPurpose = issued[j].flowPurpose
     /\ issued[i].timestamp = issued[j].timestamp)
      => issued[i].id # issued[j].id

\* C29: the plugin-key cache is initialized by at most one GET /plugins
\* request for the lifetime of the process: a caller that arrives while the
\* fetch is under way waits for it and receives its result, once the fetch is
\* over (with the lists or with an error) no caller issues another request,
\* and when the cache holds no task the tool serves the fallback lists.
C29_OneFetchForAll ==
  /\ requests <= 1
  /\ initialized => initializationPromise = "null"
  /\ \A c \in Callers :
       /\ callers[c].at = "waiting" => (~initialized /\ initializationPromise = "pending")
       /\ callers[c].at \in {"ready", "returned"} =>
            (initialized /\ callers[c].got = pluginCache)
       /\ callers[c].at = "returned" =>
            callers[c].out = IF pluginCache.tasks = <<>> THEN FallbackPlugins
                             ELSE pluginCache

\* two callers waited for the one fetch, it ended without lists, both were
\* served the fallback lists, and a caller that came later was served them too
C29_Witness ==
  /\ requests = 1
  /\ initialized
  /\ pluginCache = EmptyCache
  /\ \E a, b, c \in Callers :
       /\ a # b /\ a # c /\ b # c
       /\ callers[a].waited /\ callers[a].at = "returned"
       /\ callers[b].waited /\ callers[b].at = "returned"
       /\ ~callers[c].waited /\ callers[c].at = "returned"
       /\ callers[c].out = FallbackPlugins

\* the first n steps of the chain
FirstSteps(n) == [i \in 1..n |-> StepOrder[i]]

====
